---- MODULE Spec2Model ----
(***************************************************************************)
(* Model of the Gaussian Cube codec, GaussianCube::read and                *)
(* GaussianCube::write (src/unnamed/part_000).                             *)
(*                                                                         *)
(* Text is a sequence of lines, a line a sequence of tokens.  A token      *)
(* carries its kind, its field width and its value:                        *)
(*   "int"  an integer literal,                        v = the integer     *)
(*   "fix"  a fixed-point literal with 6 decimals,     v in 1e-6 units     *)
(*   "sci"  a scientific literal with 6 sig. digits,   v = the number      *)
(*   "str"  a non-numeric word,                        s = the word        *)
(* A line is held as the list of its blank-separated fields, which is what *)
(* Core::split(Core::trimmed(line), ' ') returns for it.                   *)
(* Lengths in Bohr parsed from a file are counted in 1e-6 Bohr, lengths in *)
(* Angstrom held by the molecule in 1e-9 Angstrom, lengths in Bohr computed*)
(* by write in 1e-12 Bohr, so that the two unit conversions are integer    *)
(* multiplications and the 6-decimal formatting is a rounding division.    *)
(***************************************************************************)
EXTENDS Integers, Sequences, FiniteSets, TLC

\* ------------------------------------------------------------------ bounds
MaxAtoms == 2
MaxCubes == 2
MaxMissing == 2

\* --------------------------------------------------------------- constants
BOHR_TO_ANGSTROM == 529
ANGSTROM_TO_BOHR == 1890
FixedScale == 1000000
ValuesPerLine == 6
SciDigits == 6

\* ----------------------------------------------------------------- helpers
Abs(n) == IF n < 0 THEN -n ELSE n

RoundDiv(a, b) ==
  IF a >= 0 THEN (2 * a + b) \div (2 * b) ELSE -((2 * (-a) + b) \div (2 * b))

RECURSIVE Pow10(_)
Pow10(n) == IF n = 0 THEN 1 ELSE 10 * Pow10(n - 1)

RECURSIVE NumDigits(_)
NumDigits(n) == IF n < 10 THEN 1 ELSE 1 + NumDigits(n \div 10)

\* ------------------------------------------------------------------ tokens
IntTok(n) == [k |-> "int", s |-> "", v |-> n, w |-> 5]
FixTok(f) == [k |-> "fix", s |-> "", v |-> f, w |-> 12]
SciTok(x) == [k |-> "sci", s |-> "", v |-> x, w |-> 13]
StrTok(t) == [k |-> "str", s |-> t, v |-> 0, w |-> 0]

Banner == << StrTok("Gaussian Cube file generated by Avogadro.") >>

IsNumeric(tok) == tok.k # "str"

\* the value of a numeric literal as a double, in 1e-6 units
DoubleOf(tok) ==
  CASE tok.k = "fix" -> tok.v
    [] tok.k = "int" -> tok.v * FixedScale
    [] tok.k = "sci" -> tok.v * FixedScale

\* the value of a numeric literal as an integer
IntOf(tok) ==
  CASE tok.k = "int" -> tok.v

\* the value of a numeric literal as a float
FloatOf(tok) ==
  CASE tok.k = "sci" -> tok.v
    [] tok.k = "int" -> tok.v

\* Core::lexicalCast<T>: stream extraction into a value-initialised T, the
\* result returned without any error channel
lexicalCastInt(tok) == IF IsNumeric(tok) THEN IntOf(tok) ELSE 0
lexicalCastDouble(tok) == IF IsNumeric(tok) THEN DoubleOf(tok) ELSE 0

\* ------------------------------------------------------------ input stream
MkStream(ls, t) == [lines |-> ls, term |-> t, ln |-> 1, col |-> 1, fail |-> FALSE]

RECURSIVE SkipWs(_, _, _)
SkipWs(ls, ln, col) ==
  IF ln > Len(ls) THEN << ln, col >>
  ELSE IF col > Len(ls[ln]) THEN SkipWs(ls, ln + 1, 1)
  ELSE << ln, col >>

\* getline(in, line): [s |-> stream after, line |-> line after]
Getline(s, old) ==
  IF s.fail \/ s.ln > Len(s.lines)
       \/ (s.ln = Len(s.lines) /\ s.col > Len(s.lines[s.ln]) /\ ~s.term)
  THEN [s |-> [s EXCEPT !.fail = TRUE], line |-> old]
  ELSE [s |-> [s EXCEPT !.ln = @ + 1, !.col = 1],
        line |-> SubSeq(s.lines[s.ln], s.col, Len(s.lines[s.ln]))]

\* the value a numeric literal gives a variable of the type
Convert(type, tok) ==
  CASE type = "int" -> IntOf(tok)
    [] type = "double" -> DoubleOf(tok)
    [] type = "float" -> FloatOf(tok)

\* in >> x for an arithmetic x: [s |-> stream after, val |-> x after]
Extract(s, old, type) ==
  IF s.fail THEN [s |-> s, val |-> old]
  ELSE LET p == SkipWs(s.lines, s.ln, s.col) IN
       IF p[1] > Len(s.lines)
       THEN [s |-> [s EXCEPT !.ln = p[1], !.col = p[2], !.fail = TRUE], val |-> old]
       ELSE LET tok == s.lines[p[1]][p[2]] IN
            IF IsNumeric(tok)
            THEN [s |-> [s EXCEPT !.ln = p[1], !.col = p[2] + 1], val |-> Convert(type, tok)]
            ELSE [s |-> [s EXCEPT !.ln = p[1], !.col = p[2], !.fail = TRUE], val |-> 0]

\* ----------------------------------------------------------- output stream
EmptyOut == [lines |-> << >>, cur |-> << >>]
Emit(out, tok) == [out EXCEPT !.cur = Append(@, tok)]
EmitLine(out, ln) == [out EXCEPT !.cur = @ \o ln]
Newline(out) == [lines |-> Append(out.lines, out.cur), cur |-> << >>]

\* std::fixed, setprecision(6), setw(12); number in 1e-12 units
writeFixedFloat(out, number) == Emit(out, FixTok(RoundDiv(number, FixedScale)))

\* setw(5)
writeFixedInt(out, number) == Emit(out, IntTok(number))

\* std::scientific, setprecision(5), setw(13): 6 significant digits
SciRound(x) ==
  LET d == NumDigits(Abs(x)) IN
  IF d <= SciDigits THEN x
  ELSE RoundDiv(x, Pow10(d - SciDigits)) * Pow10(d - SciDigits)

writeScientific(out, x) == Emit(out, SciTok(SciRound(x)))

\* ---------------------------------------------------------------- molecule
EmptyMol == [name |-> << >>, atoms |-> << >>, cubes |-> << >>]

Zeros(n) == [j \in 1..n |-> 0]

\* Core::Molecule and Core::Cube operations used by the codec
setData(m, ln) == [m EXCEPT !.name = ln]
addAtom(m, num) == [m EXCEPT !.atoms = Append(@, [num |-> num, pos |-> << 0, 0, 0 >>])]
setPosition3d(m, p) == [m EXCEPT !.atoms[Len(m.atoms)].pos = p]
addCube(m) ==
  [m EXCEPT !.cubes = Append(@, [min |-> << 0, 0, 0 >>, dim |-> << 0, 0, 0 >>,
                                 spacing |-> << 0, 0, 0 >>, data |-> << >>])]
setLimits(m, mn, dm, sp) ==
  [m EXCEPT !.cubes[Len(m.cubes)] = [@ EXCEPT !.min = mn, !.dim = dm, !.spacing = sp]]
setCubeData(m, vals) == [m EXCEPT !.cubes[Len(m.cubes)].data = vals]
cubeCount(m) == Len(m.cubes)
atomCount(m) == Len(m.atoms)
isValid(m, j) == j >= 1 /\ j <= Len(m.atoms)

Scale3(v, f) == << v[1] * f, v[2] * f, v[3] * f >>

\* ------------------------------------------------------------------- write
\* variant: the last grid is taken instead of the first
CubeToWrite_last(m) == m.cubes[Len(m.cubes)]

\* const Core::Cube* cube = mol.cube(0)
CubeToWrite(m) == m.cubes[1]

\* variant: the line is broken before every 6th value instead of after it
EndOfRow_before(i) == i % ValuesPerLine = 0

\* if (i % 6 == 5) outStream << "\n", i counted from 0
EndOfRow(i) == i % ValuesPerLine = 5

\* the line holding the name: the name if it is not empty, else a blank line
WriteName(out, m) == Newline(EmitLine(out, m.name))

\* the atom-count line and the three axis lines
WriteHeader(out, m) ==
  LET cube == CubeToWrite(m)
      min == Scale3(cube.min, ANGSTROM_TO_BOHR)
      spacing == Scale3(cube.spacing, ANGSTROM_TO_BOHR)
      dim == cube.dim
      h0 == writeFixedInt(out, atomCount(m))
      h1 == writeFixedFloat(h0, min[1])
      h2 == writeFixedFloat(h1, min[2])
      h3 == writeFixedFloat(h2, min[3])
      h4 == Newline(writeFixedInt(h3, 1))
      a0 == writeFixedInt(h4, dim[1])
      a1 == writeFixedFloat(a0, spacing[1])
      a2 == writeFixedFloat(a1, 0)
      a3 == Newline(writeFixedFloat(a2, 0))
      b0 == writeFixedInt(a3, dim[2])
      b1 == writeFixedFloat(b0, 0)
      b2 == writeFixedFloat(b1, spacing[2])
      b3 == Newline(writeFixedFloat(b2, 0))
      c0 == writeFixedInt(b3, dim[3])
      c1 == writeFixedFloat(c0, 0)
      c2 == writeFixedFloat(c1, 0)
      c3 == Newline(writeFixedFloat(c2, spacing[3]))
  IN c3

\* the atom loop, from atom j on: [ok |-> no invalid atom met, out |-> stream]
RECURSIVE WriteAtoms(_, _, _)
WriteAtoms(out, m, j) ==
  IF j > atomCount(m) THEN [ok |-> TRUE, out |-> out]
  ELSE IF ~isValid(m, j) THEN [ok |-> FALSE, out |-> out]
  ELSE LET atom == m.atoms[j]
           t0 == writeFixedInt(out, atom.num)
           t1 == writeFixedFloat(t0, 0)
           t2 == writeFixedFloat(t1, atom.pos[1] * ANGSTROM_TO_BOHR)
           t3 == writeFixedFloat(t2, atom.pos[2] * ANGSTROM_TO_BOHR)
           t4 == writeFixedFloat(t3, atom.pos[3] * ANGSTROM_TO_BOHR)
       IN WriteAtoms(Newline(t4), m, j + 1)

\* the value loop, from index i (counted from 0) on
RECURSIVE WriteValues(_, _, _)
WriteValues(out, values, i) ==
  IF ~(i < Len(values)) THEN out
  ELSE LET o1 == writeScientific(out, values[i + 1])
           o2 == IF EndOfRow(i) THEN Newline(o1) ELSE o1
       IN WriteValues(o2, values, i + 1)

\* variant: the banner is written before the grid count is looked at
write_bannerFirst(m) ==
  LET o1 == Newline(EmitLine(EmptyOut, Banner)) IN
  IF cubeCount(m) = 0 THEN [ok |-> FALSE, out |-> o1]
  ELSE LET o2 == WriteName(o1, m)
           o3 == WriteHeader(o2, m)
           at == WriteAtoms(o3, m, 1)
       IN IF ~at.ok THEN at
          ELSE [ok |-> TRUE, out |-> WriteValues(at.out, CubeToWrite(m).data, 0)]

\* GaussianCube::write: [ok |-> return value, out |-> what the stream holds]
write(m) ==
  IF cubeCount(m) = 0 THEN [ok |-> FALSE, out |-> EmptyOut]
  ELSE LET o1 == Newline(EmitLine(EmptyOut, Banner))
           o2 == WriteName(o1, m)
           o3 == WriteHeader(o2, m)
           at == WriteAtoms(o3, m, 1)
       IN IF ~at.ok THEN at
          ELSE [ok |-> TRUE, out |-> WriteValues(at.out, CubeToWrite(m).data, 0)]

\* ------------------------------------------------------- the inputs checked
\* dimension triples an input file declares: cubic, a partial last row, one
\* full row, one zero component, one negative component
DimChoices == { << 2, 2, 2 >>, << 1, 7, 1 >>, << 3, 1, 2 >>, << 0, 2, 2 >>, << -1, 1, 2 >> }
GoodDims == { d \in DimChoices : d[1] > 0 /\ d[2] > 0 /\ d[3] > 0 }
Product(d) == d[1] * d[2] * d[3]

DiagSpacing == << 500, 250, 1000 >>
OffChoices == { 0, 125 }
FileMin == << -1000, 0, 750 >>

\* seq cut in rows of n
RECURSIVE Chunk(_, _)
Chunk(seq, n) ==
  IF Len(seq) = 0 THEN << >>
  ELSE IF Len(seq) <= n THEN << seq >>
  ELSE << SubSeq(seq, 1, n) >> \o Chunk(SubSeq(seq, n + 1, Len(seq)), n)

\* lines without their last k tokens
RECURSIVE DropLast(_, _)
DropLast(ls, k) ==
  IF k = 0 \/ Len(ls) = 0 THEN ls
  ELSE LET last == ls[Len(ls)] IN
       IF Len(last) <= 1 THEN DropLast(SubSeq(ls, 1, Len(ls) - 1), k - 1)
       ELSE DropLast([ls EXCEPT ![Len(ls)] = SubSeq(last, 1, Len(last) - 1)], k - 1)

RECURSIVE Flatten(_)
Flatten(ls) == IF Len(ls) = 0 THEN << >> ELSE ls[1] \o Flatten(Tail(ls))

AtomLine(j, bad) ==
  << IF bad /\ j = 1 THEN StrTok("Xx") ELSE IntTok(IF j = 1 THEN 8 ELSE 1),
     FixTok(0), FixTok(j * 100), FixTok(0), FixTok(-250 * (j - 1)) >>

AxisLine(a, d, off) ==
  << IntTok(d[a]) >> \o [c \in 1..3 |-> FixTok(IF c = a THEN DiagSpacing[a] ELSE off)]

VoxelValue(c, j) == IF c = 1 /\ j = 2 THEN 1234570 ELSE 100 * (c - 1) + j - 3

VoxelLines(c, n) == Chunk([j \in 1..n |-> SciTok(VoxelValue(c, j))], ValuesPerLine)

RECURSIVE AllVoxelLines(_, _, _)
AllVoxelLines(c, nc, n) ==
  IF c > nc THEN << >> ELSE VoxelLines(c, n) \o AllVoxelLines(c + 1, nc, n)

\* a cube file: atom-count field na, bad = the first atomic number is not a
\* number, dimensions d, off-diagonal axis components off, nc grids (nc is in
\* the file only when na < 0), the last miss voxel tokens missing
FileLines(na, bad, d, off, nc, miss) ==
  << << StrTok("h2o") >>, << StrTok("density") >>,
     << IntTok(na), FixTok(FileMin[1]), FixTok(FileMin[2]), FixTok(FileMin[3]) >>
        \o (IF na < 0 THEN << >> ELSE << IntTok(1) >>),
     AxisLine(1, d, off), AxisLine(2, d, off), AxisLine(3, d, off) >>
  \o [j \in 1..Abs(na) |-> AtomLine(j, bad)]
  \o (IF na < 0 THEN << << IntTok(nc) >> \o [c \in 1..nc |-> IntTok(4 + c)] >> ELSE << >>)
  \o DropLast(AllVoxelLines(1, nc, IF Product(d) > 0 THEN Product(d) ELSE 0), miss)

InputParams ==
  { p \in [na : (-MaxAtoms)..MaxAtoms, bad : BOOLEAN, d : DimChoices,
           off : OffChoices, nc : 0..MaxCubes, miss : 0..MaxMissing] :
      /\ (p.na >= 0 => p.nc = 1)
      /\ (p.bad => p.na # 0)
      /\ p.miss <= p.nc * (IF Product(p.d) > 0 THEN Product(p.d) ELSE 0) }

InputOf(p) == MkStream(FileLines(p.na, p.bad, p.d, p.off, p.nc, p.miss), p.miss = 0)

NoInput == MkStream(<< >>, TRUE)

\* --------------------------------------------------- the molecules checked
Names == { << >>, << StrTok("h2o") >>, Banner }

\* atom j; exact = its position is a whole number of 1e-6 Bohr
MolAtom(j, exact) ==
  [num |-> IF j = 1 THEN 8 ELSE 1,
   pos |-> IF exact THEN Scale3(<< j * 100, 0, -250 * (j - 1) >>, BOHR_TO_ANGSTROM)
           ELSE << j * 1000 + 7, 3, -250 * (j - 1) >>]

MolCube(c, d, exact) ==
  [min |-> IF exact THEN Scale3(<< -100 * c, 0, 750 >>, BOHR_TO_ANGSTROM)
           ELSE << -100 * c + 1, 11, 750 >>,
   dim |-> IF c = 1 THEN d ELSE << d[3], d[1], d[2] >>,
   spacing |-> Scale3(<< 500, 250 * c, 1000 >>, BOHR_TO_ANGSTROM),
   data |-> [j \in 1..Product(d) |->
               IF exact THEN VoxelValue(c, j) ELSE 1234567 * j]]

MolOf(p) ==
  [name |-> p.name,
   atoms |-> [j \in 1..p.na |-> MolAtom(j, p.exact)],
   cubes |-> [c \in 1..p.nc |-> MolCube(c, p.d, p.exact)]]

MolParams ==
  [name : Names, na : 0..MaxAtoms, nc : 0..MaxCubes, d : GoodDims, exact : BOOLEAN]

\* the molecules read is given: a fresh one and one that already holds data
ReadTargets ==
  { EmptyMol,
    MolOf([name |-> << StrTok("old") >>, na |-> 1, nc |-> 1, d |-> << 3, 1, 2 >>,
           exact |-> TRUE]) }

\* ------------------------------------------------------------------- state
VARIABLES
  mol,        \* the molecule read fills and write serializes
  inp,        \* the input stream of read
  line,       \* read's locals
  nAtoms,
  min,
  spacing,
  dim,
  nCubes,
  moList,
  i,          \* the index of the loop read is in
  pc,         \* where read is: idle, name, title, header, axis, atoms, bonds,
              \* cubes, done (returned), threw (left by an exception)
  rret,       \* what read returned: "none" or "true"
  outStream,  \* the output stream of the last write
  wret,       \* what the last write returned: "none", "true" or "false"
  atoms0,     \* atoms and grids the molecule held when read was entered
  cubes0,
  bondLog,    \* one entry per perceiveBondsSimple call of the current read:
              \* the atoms and grids the molecule held at the call
  rt,         \* 0 nothing written, 1 written once, 2 that text being read
              \* back, 3 read back, 4 written again
  firstMol,   \* the molecule and the text of the first write
  firstOut

vars == << mol, inp, line, nAtoms, min, spacing, dim, nCubes, moList, i, pc, rret,
           outStream, wret, atoms0, cubes0, bondLog, rt, firstMol, firstOut >>

locals == << line, nAtoms, min, spacing, dim, nCubes, moList >>
written == << outStream, wret, rt, firstMol, firstOut >>
entry == << atoms0, cubes0 >>

Init ==
  /\ \/ /\ mol \in { MolOf(p) : p \in MolParams }
        /\ inp = NoInput
     \/ /\ mol \in ReadTargets
        /\ inp \in { InputOf(p) : p \in InputParams }
  /\ line = << >>
  /\ nAtoms = 0
  /\ min = << 0, 0, 0 >>
  /\ spacing = << 0, 0, 0 >>
  /\ dim = << 0, 0, 0 >>
  /\ nCubes = 1
  /\ moList = << >>
  /\ i = 0
  /\ pc = "idle"
  /\ rret = "none"
  /\ outStream = EmptyOut
  /\ wret = "none"
  /\ atoms0 = 0
  /\ cubes0 = 0
  /\ bondLog = << >>
  /\ rt = 0
  /\ firstMol = EmptyMol
  /\ firstOut = EmptyOut

\* -------------------------------------------------------------------- read
\* field k of a split line, k counted from 0 as in the code
Field(list, k) == list[k + 1]

\* variant: the spacing is taken from field 1 of every axis line
SpacingField_first(a) == 1

\* spacing(i) = lexicalCast<double>(list[i + 1])
SpacingField(a) == a + 1

\* for (int i = 0; i < abs(nAtoms); ++i)
AtomLoopBound(n) == Abs(n)

\* unsigned int nCubes = 1, replaced by the count field when nAtoms < 0
CubesWithoutCount == 1

\* read is called with a stream and a molecule
StartRead ==
  /\ pc = "idle"
  /\ rt = 0
  /\ Len(inp.lines) > 0
  /\ pc' = "name"
  /\ atoms0' = atomCount(mol)
  /\ cubes0' = cubeCount(mol)
  /\ bondLog' = << >>
  /\ rret' = "none"
  /\ UNCHANGED << mol, inp, locals, i, written >>

\* getline(in, line); molecule.setData("name", line)
ReadName ==
  /\ pc = "name"
  /\ LET g == Getline(inp, line) IN
       /\ inp' = g.s
       /\ line' = g.line
       /\ mol' = setData(mol, g.line)
  /\ pc' = "title"
  /\ UNCHANGED << nAtoms, min, spacing, dim, nCubes, moList, i, rret, written,
                  entry, bondLog >>

\* getline(in, line): the title is skipped
ReadTitle ==
  /\ pc = "title"
  /\ LET g == Getline(inp, line) IN
       /\ inp' = g.s
       /\ line' = g.line
  /\ pc' = "header"
  /\ UNCHANGED << mol, nAtoms, min, spacing, dim, nCubes, moList, i, rret, written,
                  entry, bondLog >>

\* in >> nAtoms; in >> min(0..2); getline(in, line)
ReadHeader ==
  /\ pc = "header"
  /\ LET e0 == Extract(inp, nAtoms, "int")
         e1 == Extract(e0.s, min[1], "double")
         e2 == Extract(e1.s, min[2], "double")
         e3 == Extract(e2.s, min[3], "double")
         g == Getline(e3.s, line)
     IN /\ nAtoms' = e0.val
        /\ min' = << e1.val, e2.val, e3.val >>
        /\ inp' = g.s
        /\ line' = g.line
  /\ pc' = "axis"
  /\ i' = 0
  /\ UNCHANGED << mol, spacing, dim, nCubes, moList, rret, written, entry, bondLog >>

\* one pass of the loop over the three axis lines
ReadAxis ==
  /\ pc = "axis"
  /\ i < 3
  /\ LET g == Getline(inp, line)
         list == g.line
     IN /\ inp' = g.s
        /\ line' = g.line
        /\ dim' = [dim EXCEPT ![i + 1] = lexicalCastInt(Field(list, 0))]
        /\ spacing' = [spacing EXCEPT ![i + 1] =
                         lexicalCastDouble(Field(list, SpacingField(i)))]
  /\ IF i + 1 < 3 THEN pc' = "axis" /\ i' = i + 1
                  ELSE pc' = "atoms" /\ i' = 0
  /\ UNCHANGED << mol, nAtoms, min, nCubes, moList, rret, written, entry, bondLog >>

\* one pass of the geometry loop
ReadAtom ==
  /\ pc = "atoms"
  /\ i < AtomLoopBound(nAtoms)
  /\ LET g == Getline(inp, line)
         list == g.line
         atomNum == lexicalCastInt(Field(list, 0))
         pos == << lexicalCastDouble(Field(list, 2)), lexicalCastDouble(Field(list, 3)),
                   lexicalCastDouble(Field(list, 4)) >>
     IN /\ inp' = g.s
        /\ line' = g.line
        /\ mol' = setPosition3d(addAtom(mol, atomNum % 256), Scale3(pos, BOHR_TO_ANGSTROM))
  /\ i' = i + 1
  /\ UNCHANGED << nAtoms, min, spacing, dim, nCubes, moList, pc, rret, written,
                  entry, bondLog >>

\* n values extracted one after the other into vals, from index j on
RECURSIVE ExtractAll(_, _, _, _)
ExtractAll(s, vals, j, type) ==
  IF j > Len(vals) THEN [s |-> s, vals |-> vals]
  ELSE LET e == Extract(s, vals[j], type)
       IN ExtractAll(e.s, [vals EXCEPT ![j] = e.val], j + 1, type)

\* variant: the count line is consumed but the count is not used
ReadCubeCount_ignored ==
  /\ pc = "atoms"
  /\ ~(i < AtomLoopBound(nAtoms))
  /\ IF nAtoms < 0
     THEN LET e == Extract(inp, CubesWithoutCount, "int")
              m == ExtractAll(e.s, Zeros(e.val), 1, "int")
              g == Getline(m.s, line)
          IN /\ nCubes' = CubesWithoutCount
             /\ moList' = m.vals
             /\ inp' = g.s
             /\ line' = g.line
     ELSE /\ nCubes' = CubesWithoutCount
          /\ UNCHANGED << moList, inp, line >>
  /\ pc' = "bonds"
  /\ UNCHANGED << mol, nAtoms, min, spacing, dim, i, rret, written, entry, bondLog >>

\* the geometry loop is over: the grid count and the orbital list
ReadCubeCount ==
  /\ pc = "atoms"
  /\ ~(i < AtomLoopBound(nAtoms))
  /\ IF nAtoms < 0
     THEN LET e == Extract(inp, CubesWithoutCount, "int")
              m == ExtractAll(e.s, Zeros(e.val), 1, "int")
              g == Getline(m.s, line)
          IN /\ nCubes' = e.val
             /\ moList' = m.vals
             /\ inp' = g.s
             /\ line' = g.line
     ELSE /\ nCubes' = CubesWithoutCount
          /\ UNCHANGED << moList, inp, line >>
  /\ pc' = "bonds"
  /\ UNCHANGED << mol, nAtoms, min, spacing, dim, i, rret, written, entry, bondLog >>

\* variant: the bonds are perceived once per grid, in the cube loop's setup
ReadBonds_perGrid ==
  /\ pc = "bonds"
  /\ bondLog' = bondLog \o [k \in 1..nCubes |->
                              [atoms |-> atomCount(mol), cubes |-> cubeCount(mol)]]
  /\ min' = Scale3(min, BOHR_TO_ANGSTROM)
  /\ spacing' = Scale3(spacing, BOHR_TO_ANGSTROM)
  /\ pc' = "cubes"
  /\ i' = 0
  /\ UNCHANGED << mol, inp, line, nAtoms, dim, nCubes, moList, rret, written, entry >>

\* molecule.perceiveBondsSimple(); min and spacing converted to Angstrom
ReadBonds ==
  /\ pc = "bonds"
  /\ bondLog' = Append(bondLog, [atoms |-> atomCount(mol), cubes |-> cubeCount(mol)])
  /\ min' = Scale3(min, BOHR_TO_ANGSTROM)
  /\ spacing' = Scale3(spacing, BOHR_TO_ANGSTROM)
  /\ pc' = "cubes"
  /\ i' = 0
  /\ UNCHANGED << mol, inp, line, nAtoms, dim, nCubes, moList, rret, written, entry >>

\* one pass of the cube loop; a negative size makes values.resize throw
ReadCube ==
  /\ pc = "cubes"
  /\ i < nCubes
  /\ LET m1 == setLimits(addCube(mol), min, dim, spacing)
         n == dim[1] * dim[2] * dim[3]
     IN IF n < 0
        THEN /\ mol' = m1
             /\ pc' = "threw"
             /\ UNCHANGED << inp, line, i >>
        ELSE LET r == ExtractAll(inp, Zeros(n), 1, "float")
                 g == Getline(r.s, line)
             IN /\ mol' = setCubeData(m1, r.vals)
                /\ inp' = g.s
                /\ line' = g.line
                /\ i' = i + 1
                /\ pc' = "cubes"
  /\ UNCHANGED << nAtoms, min, spacing, dim, nCubes, moList, rret, written, entry,
                  bondLog >>

\* return true
ReadReturn ==
  /\ pc = "cubes"
  /\ ~(i < nCubes)
  /\ pc' = "done"
  /\ rret' = "true"
  /\ rt' = IF rt = 2 THEN 3 ELSE rt
  /\ UNCHANGED << mol, inp, locals, i, outStream, wret, firstMol, firstOut, entry,
                  bondLog >>

\* write is called with a fresh stream and the molecule
Write ==
  /\ pc \in { "idle", "done" }
  /\ rt \in { 0, 3 }
  /\ LET r == write(mol) IN
       /\ outStream' = r.out
       /\ wret' = (IF r.ok THEN "true" ELSE "false")
       /\ IF rt = 0
          THEN firstMol' = mol /\ firstOut' = r.out /\ rt' = 1
          ELSE UNCHANGED << firstMol, firstOut >> /\ rt' = 4
  /\ UNCHANGED << mol, inp, locals, i, pc, rret, entry, bondLog >>

\* the text of a write that succeeded is read into a fresh molecule
ReadBack ==
  /\ pc \in { "idle", "done" }
  /\ rt = 1
  /\ wret = "true"
  /\ inp' = MkStream(outStream.lines \o (IF Len(outStream.cur) > 0
                                          THEN << outStream.cur >> ELSE << >>),
                     Len(outStream.cur) = 0)
  /\ mol' = EmptyMol
  /\ pc' = "name"
  /\ atoms0' = 0
  /\ cubes0' = 0
  /\ bondLog' = << >>
  /\ rret' = "none"
  /\ rt' = 2
  /\ UNCHANGED << locals, i, outStream, wret, firstMol, firstOut >>

Next ==
  \/ StartRead
  \/ ReadName
  \/ ReadTitle
  \/ ReadHeader
  \/ ReadAxis
  \/ ReadAtom
  \/ ReadCubeCount
  \/ ReadBonds
  \/ ReadCube
  \/ ReadReturn
  \/ Write
  \/ ReadBack

Spec == Init /\ [][Next]_vars

\* ------------------------------------------------- what the input declares
\* the fields of the file read is working on, taken from its text
InRead == pc \notin { "idle" }
HdrNAtoms == inp.lines[3][1].v
HdrDim(a) == inp.lines[3 + a][1].v
HdrCountLine == 6 + Abs(HdrNAtoms) + 1
HdrCubes == IF HdrNAtoms < 0 THEN inp.lines[HdrCountLine][1].v ELSE 1
VoxelStart == IF HdrNAtoms < 0 THEN HdrCountLine + 1 ELSE HdrCountLine
VoxelTokens == Len(Flatten(SubSeq(inp.lines, VoxelStart, Len(inp.lines))))
DimsPositive == \A a \in 1..3 : HdrDim(a) > 0
VoxelsNeeded == HdrCubes * HdrDim(1) * HdrDim(2) * HdrDim(3)
BadAtomToken == \E j \in 1..Abs(HdrNAtoms) : ~IsNumeric(inp.lines[6 + j][1])
Truncated == DimsPositive /\ VoxelTokens < VoxelsNeeded
OffDiagonal == \E a \in 1..3 : \E c \in 1..3 : c # a /\ inp.lines[3 + a][c + 1].v # 0
ValidInput == ~BadAtomToken /\ DimsPositive /\ VoxelTokens = VoxelsNeeded

AtomsAdded == atomCount(mol) - atoms0
CubesAdded == cubeCount(mol) - cubes0
AddedCube(c) == mol.cubes[cubes0 + c]

\* the molecule the text in outStream was written from
WrittenMol == IF rt = 4 THEN mol ELSE firstMol

\* lengths and values that the 6-decimal and 6-digit formats hold exactly
ExactLength(a) == RoundDiv(a * ANGSTROM_TO_BOHR, FixedScale) * BOHR_TO_ANGSTROM = a
Representable(m) ==
  /\ \A j \in 1..atomCount(m) : \A c \in 1..3 : ExactLength(m.atoms[j].pos[c])
  /\ \A g \in 1..cubeCount(m) :
       /\ \A c \in 1..3 : ExactLength(m.cubes[g].min[c]) /\ ExactLength(m.cubes[g].spacing[c])
       /\ \A j \in 1..Len(m.cubes[g].data) : SciRound(m.cubes[g].data[j]) = m.cubes[g].data[j]

\* ------------------------------------------------------------------ claims

\* C1: when read has returned on a valid input, the atoms it added are
\* abs(nAtoms) of the header, and the grids it added are the count field when
\* nAtoms < 0 and exactly 1 otherwise.
C1_AtomAndGridCounts ==
  (pc = "done" /\ ValidInput) =>
     /\ AtomsAdded = Abs(HdrNAtoms)
     /\ CubesAdded = HdrCubes
     /\ (HdrNAtoms >= 0 => CubesAdded = 1)

C1_Witness ==
  /\ pc = "done" /\ ValidInput
  /\ HdrNAtoms = -2 /\ HdrCubes = 2 /\ atoms0 = 1 /\ cubes0 = 1
  /\ AtomsAdded = 2 /\ CubesAdded = 2

\* C2: every grid read fills has a buffer of dim.x * dim.y * dim.z values, and
\* read does not report success when the stream holds fewer voxel tokens than
\* the declared grids need.
C2_TruncatedVoxelsFail ==
  /\ pc = "done" =>
       \A c \in 1..CubesAdded : Len(AddedCube(c).data) = Product(AddedCube(c).dim)
  /\ (InRead /\ Truncated) => rret # "true"

\* C3: write on a molecule without grids fails and leaves the stream empty.
C3_NoGridNoOutput ==
  (wret # "none" /\ cubeCount(WrittenMol) = 0) =>
     /\ wret = "false"
     /\ outStream = EmptyOut

C3_Witness ==
  /\ rt = 1 /\ wret = "false"
  /\ cubeCount(firstMol) = 0 /\ atomCount(firstMol) = 2 /\ firstMol.name # << >>

\* C4: when the atomic-number token of an atom line is not a number, read does
\* not report success and adds no grid.
C4_BadAtomicNumberFails ==
  (InRead /\ BadAtomToken) => (rret # "true" /\ CubesAdded = 0)

\* C5: when an axis line gives a zero or negative dimension, read does not
\* report success and creates no grid; every grid of a successful read has
\* positive dimensions.
C5_NonPositiveDimFails ==
  /\ (InRead /\ ~DimsPositive) => (rret # "true" /\ CubesAdded = 0)
  /\ pc = "done" =>
       \A c \in 1..CubesAdded : \A a \in 1..3 : AddedCube(c).dim[a] > 0

\* C6: a molecule with exactly one grid and representable values is written,
\* the text read into a fresh molecule and written again: the second text is
\* the first, line for line.
C6_RoundTrip ==
  (rt = 4 /\ cubeCount(firstMol) = 1 /\ Representable(firstMol)) =>
     outStream = firstOut

\* C7: during one read, perceiveBondsSimple is called exactly once, when all
\* abs(nAtoms) atoms are in the molecule and no grid has been added yet.
C7_BondsOnceBetweenAtomsAndGrids ==
  InRead =>
     /\ Len(bondLog) <= 1
     /\ \A k \in 1..Len(bondLog) :
          /\ bondLog[k].atoms = atoms0 + Abs(HdrNAtoms)
          /\ bondLog[k].cubes = cubes0
     /\ (CubesAdded > 0 => Len(bondLog) = 1)
     /\ (AtomsAdded < Abs(HdrNAtoms) => Len(bondLog) = 0)
     /\ (pc = "done" => Len(bondLog) = 1)

C7_Witness ==
  /\ pc = "done" /\ HdrNAtoms = -2 /\ HdrCubes = 2
  /\ CubesAdded = 2 /\ AtomsAdded = 2 /\ Len(bondLog) = 1

\* C8: write emits the values of the first grid in buffer order, none skipped
\* or repeated, 6 on every complete line, the count mod 6 last ones on a line
\* that is not terminated.
C8_SixValuesPerLine ==
  wret = "true" =>
     LET m == WrittenMol
         data == m.cubes[1].data
         first == 6 + atomCount(m) + 1
         body == SubSeq(outStream.lines, first, Len(outStream.lines))
     IN /\ Len(body) = Len(data) \div 6
        /\ \A l \in 1..Len(body) : Len(body[l]) = 6
        /\ Len(outStream.cur) = Len(data) % 6
        /\ Flatten(body) \o outStream.cur = [j \in 1..Len(data) |-> SciTok(SciRound(data[j]))]

C8_Witness ==
  /\ wret = "true"
  /\ Len(WrittenMol.cubes[1].data) = 7
  /\ Len(outStream.cur) = 1
  /\ Len(outStream.lines) = 6 + atomCount(WrittenMol) + 1

\* C9: the text written is the text written for the same molecule with its
\* first grid alone; its origin, dimensions and spacings are those of the
\* first grid and its header line ends with 1.
C9_OnlyFirstGrid ==
  wret = "true" =>
     LET m == WrittenMol
         g == m.cubes[1]
         File(a) == RoundDiv(a * ANGSTROM_TO_BOHR, FixedScale)
     IN /\ outStream = write([m EXCEPT !.cubes = << g >>]).out
        /\ outStream.lines[3] =
             << IntTok(atomCount(m)), FixTok(File(g.min[1])), FixTok(File(g.min[2])),
                FixTok(File(g.min[3])), IntTok(1) >>
        /\ \A a \in 1..3 :
             /\ outStream.lines[3 + a][1] = IntTok(g.dim[a])
             /\ outStream.lines[3 + a][a + 1] = FixTok(File(g.spacing[a]))

C9_Witness ==
  /\ wret = "true"
  /\ cubeCount(WrittenMol) = 2
  /\ WrittenMol.cubes[1] # WrittenMol.cubes[2]
  /\ WrittenMol.cubes[1].min # WrittenMol.cubes[2].min

\* C10: for axis line i the dimension is field 0 and the spacing field i + 1;
\* non-zero off-diagonal components do not stop the read and do not change
\* the spacing of the grids.
C10_DiagonalOnly ==
  pc = "done" =>
     \A c \in 1..CubesAdded : \A a \in 1..3 :
        /\ AddedCube(c).dim[a] = inp.lines[3 + a][1].v
        /\ AddedCube(c).spacing[a] = DoubleOf(inp.lines[3 + a][a + 1]) * BOHR_TO_ANGSTROM

C10_Witness ==
  /\ pc = "done" /\ rret = "true" /\ OffDiagonal /\ ValidInput
  /\ CubesAdded = 2
  /\ AddedCube(2).spacing = Scale3(DiagSpacing, BOHR_TO_ANGSTROM)

====
